---------------------------- MODULE Spec2Model ----------------------------
(***************************************************************************)
(* A model of altair_saver/_utils.py (format registry, dialect inference,  *)
(* scoped temporary files, output targets, external commands) and of the   *)
(* two savers exercised by savers/tests.                                   *)
(*                                                                         *)
(* Python strings are sequences of one-character strings, so that          *)
(* startswith, endswith, `in` and split are computed character by          *)
(* character.  Python bytes are sequences of numbers 0..255.               *)
(***************************************************************************)
EXTENDS Integers, Sequences, FiniteSets, TLC

VARIABLES
    call,      \* the last call of a pure helper or saver: its inputs and outcome
    fs,        \* the temporary directory: file name -> id of the scope whose file it is, 0 = no file
    sc,        \* temporary_filename scopes: position, file name, exit path, error raised on exit
    removal,   \* the last os.remove done by a scope's cleanup: who removed whose file
    run,       \* check_output_with_stderr: position, inputs, what the process produced, outcome
    log,       \* check_output_with_stderr: what the caller observed, in order
    mo         \* maybe_open: position, target, mode, what was yielded or raised, open handles

vars == <<call, fs, sc, removal, run, log, mo>>

-----------------------------------------------------------------------------
(* Bounds of the model *)

\* the major component of a version string has at most this many digits
MaxMajorLen == 2
\* temporary_filename scopes in the model
NumScopes == 3
\* file names mkstemp draws from
NumNames == 2
\* the process writes at most this many bytes to its stderr
MaxBytes == 2
\* an unrecognized format or MIME string is a prefix of a known one plus at most this many characters
MaxTail == 1
\* a `$schema` string is at most this many chunks long
MaxChunks == 2
\* a spec has at most this many of the probed top-level keys
MaxKeys == 2
\* a file name is at most this many chunks long
MaxNameChunks == 3

-----------------------------------------------------------------------------
(* Python str operations *)

\* str.startswith
StartsWith(s, p) == Len(p) <= Len(s) /\ SubSeq(s, 1, Len(p)) = p

\* str.endswith
EndsWith(s, p) == Len(p) <= Len(s) /\ SubSeq(s, Len(s) - Len(p) + 1, Len(s)) = p

\* `sub in s` for strings
Contains(s, sub) ==
    \E i \in 1..(Len(s) - Len(sub) + 1) : SubSeq(s, i, i + Len(sub) - 1) = sub

\* str.split(sep) for a one-character separator: the list of the pieces between separators
RECURSIVE Split(_, _)
Split(s, sep) ==
    IF \A i \in 1..Len(s) : s[i] # sep
    THEN <<s>>
    ELSE LET i == CHOOSE k \in 1..Len(s) :
                      s[k] = sep /\ \A j \in 1..(k - 1) : s[j] # sep
         IN  <<SubSeq(s, 1, i - 1)>> \o Split(SubSeq(s, i + 1, Len(s)), sep)

\* the result of a call: a returned value, or the exception raised
Return(v) == [raised |-> "none", value |-> v]
Raise(e) == [raised |-> e, value |-> <<>>]

\* all strings of at most n characters over alphabet A
StringsUpTo(A, n) == UNION {[1..k -> A] : k \in 0..n}

\* all prefixes of the strings of S
Prefixes(S) == UNION {{SubSeq(s, 1, k) : k \in 0..Len(s)} : s \in S}

-----------------------------------------------------------------------------
(* Format registry: fmt_to_mimetype, mimetype_to_fmt *)

S_vega_lite == <<"v", "e", "g", "a", "-", "l", "i", "t", "e">>
S_vega == <<"v", "e", "g", "a">>
S_pdf == <<"p", "d", "f">>
S_html == <<"h", "t", "m", "l">>
S_png == <<"p", "n", "g">>
S_svg == <<"s", "v", "g">>

\* "application/vnd.vegalite.v{}+json" and "application/vnd.vega.v{}+json", around the {}
T_vegalite == <<"a", "p", "p", "l", "i", "c", "a", "t", "i", "o", "n", "/", "v", "n", "d", ".", "v", "e", "g", "a", "l", "i", "t", "e", ".", "v">>
T_vega == <<"a", "p", "p", "l", "i", "c", "a", "t", "i", "o", "n", "/", "v", "n", "d", ".", "v", "e", "g", "a", ".", "v">>
T_json == <<"+", "j", "s", "o", "n">>

M_pdf == <<"a", "p", "p", "l", "i", "c", "a", "t", "i", "o", "n", "/", "p", "d", "f">>
M_html == <<"t", "e", "x", "t", "/", "h", "t", "m", "l">>
M_png == <<"i", "m", "a", "g", "e", "/", "p", "n", "g">>
M_svg == <<"i", "m", "a", "g", "e", "/", "s", "v", "g", "+", "x", "m", "l">>

\* the prefixes mimetype_to_fmt tests
P_vegalite == <<"a", "p", "p", "l", "i", "c", "a", "t", "i", "o", "n", "/", "v", "n", "d", ".", "v", "e", "g", "a", "l", "i", "t", "e">>
P_vega == <<"a", "p", "p", "l", "i", "c", "a", "t", "i", "o", "n", "/", "v", "n", "d", ".", "v", "e", "g", "a">>

fmt_to_mimetype(fmt, vegalite_version, vega_version) ==
    IF fmt = S_vega_lite
    THEN Return(T_vegalite \o Split(vegalite_version, ".")[1] \o T_json)
    ELSE IF fmt = S_vega
    THEN Return(T_vega \o Split(vega_version, ".")[1] \o T_json)
    ELSE IF fmt = S_pdf THEN Return(M_pdf)
    ELSE IF fmt = S_html THEN Return(M_html)
    ELSE IF fmt = S_png THEN Return(M_png)
    ELSE IF fmt = S_svg THEN Return(M_svg)
    ELSE Raise("ValueError")

\* a plausible slip: the shorter prefix tested first
mimetype_to_fmt_vega_first(mimetype) ==
    IF StartsWith(mimetype, P_vega) THEN Return(S_vega)
    ELSE IF StartsWith(mimetype, P_vegalite) THEN Return(S_vega_lite)
    ELSE IF mimetype = M_pdf THEN Return(S_pdf)
    ELSE IF mimetype = M_html THEN Return(S_html)
    ELSE IF mimetype = M_png THEN Return(S_png)
    ELSE IF mimetype = M_svg THEN Return(S_svg)
    ELSE Raise("ValueError")

mimetype_to_fmt(mimetype) ==
    IF StartsWith(mimetype, P_vegalite) THEN Return(S_vega_lite)
    ELSE IF StartsWith(mimetype, P_vega) THEN Return(S_vega)
    ELSE IF mimetype = M_pdf THEN Return(S_pdf)
    ELSE IF mimetype = M_html THEN Return(S_html)
    ELSE IF mimetype = M_png THEN Return(S_png)
    ELSE IF mimetype = M_svg THEN Return(S_svg)
    ELSE Raise("ValueError")

(* Inputs of the registry *)

Formats == {S_vega_lite, S_vega, S_pdf, S_html, S_png, S_svg}
FixedMimetypes == {M_pdf, M_html, M_png, M_svg}

Digits == {"0", "5"}
\* decimal numerals of 1..MaxMajorLen digits
Majors == StringsUpTo(Digits, MaxMajorLen) \ {<<>>}
\* version strings x.y.z
Versions == {x \o <<".">> \o <<y>> \o <<".", "1">> : x \in Majors, y \in Digits}

Tails == StringsUpTo({"x"}, MaxTail)
\* the six formats, their prefixes, and these followed by a tail
FmtInputs == {p \o t : p \in Prefixes(Formats), t \in Tails}
\* the MIME types of the six formats, their prefixes, and these followed by a tail
KnownMimetypes ==
    FixedMimetypes \cup {T_vegalite \o x \o T_json : x \in Majors}
                   \cup {T_vega \o x \o T_json : x \in Majors}
MimetypeInputs == {p \o t : p \in Prefixes(KnownMimetypes), t \in Tails}

Idle == [op |-> "idle"]

\* a caller asks for the MIME type of a format
CallFmtToMimetype ==
    /\ call.op = "idle"
    /\ \E fmt \in FmtInputs, vl \in Versions, vg \in Versions :
          call' = [op |-> "fmt_to_mimetype", fmt |-> fmt,
                   vegalite_version |-> vl, vega_version |-> vg,
                   out |-> fmt_to_mimetype(fmt, vl, vg)]
    /\ UNCHANGED <<fs, sc, removal, run, log, mo>>

\* a caller asks for the format of a MIME type
CallMimetypeToFmt ==
    /\ call.op = "idle"
    /\ \E m \in MimetypeInputs :
          call' = [op |-> "mimetype_to_fmt", mimetype |-> m, out |-> mimetype_to_fmt(m)]
    /\ UNCHANGED <<fs, sc, removal, run, log, mo>>

\* a caller maps the MIME type it was just given back to a format
CallRoundTrip ==
    /\ call.op = "fmt_to_mimetype"
    /\ call.out.raised = "none"
    /\ call' = [op |-> "round_trip", fmt |-> call.fmt,
                vegalite_version |-> call.vegalite_version,
                vega_version |-> call.vega_version,
                mimetype |-> call.out.value,
                out |-> mimetype_to_fmt(call.out.value)]
    /\ UNCHANGED <<fs, sc, removal, run, log, mo>>


RegistryNext == CallFmtToMimetype \/ CallMimetypeToFmt \/ CallRoundTrip

-----------------------------------------------------------------------------
(* Dialect inference: infer_mode_from_spec *)

\* A spec is a JSON object.  Of it the model keeps what the function reads: the
\* value under "$schema" (absent, a value that is no string, or a string) and
\* which of the other top-level keys are present.
SUB_vegalite == <<"/", "v", "e", "g", "a", "-", "l", "i", "t", "e", "/">>
SUB_vega == <<"/", "v", "e", "g", "a", "/">>

\* the list the for loop walks, in its order
VegaOnlyKeys == <<"axes", "legends", "marks", "projections", "scales", "signals">>

\* the for loop over the keys from position i on: the first key present returns
\* "vega", running off the end returns "vega-lite"
RECURSIVE ProbeKeys(_, _)
ProbeKeys(spec, i) ==
    IF i > Len(VegaOnlyKeys) THEN Return(S_vega_lite)
    ELSE IF VegaOnlyKeys[i] \in spec.keys THEN Return(S_vega)
    ELSE ProbeKeys(spec, i + 1)

\* a plausible slip: the default of the other dialect
infer_mode_default_vega(spec) ==
    IF spec.schema.kind = "str" /\ Contains(spec.schema.val, SUB_vegalite)
    THEN Return(S_vega_lite)
    ELSE Return(S_vega)

\* a plausible slip: the structural probe before the schema
infer_mode_keys_first(spec) ==
    IF ProbeKeys(spec, 1).value = S_vega THEN Return(S_vega)
    ELSE IF spec.schema.kind = "str" /\ Contains(spec.schema.val, SUB_vegalite)
    THEN Return(S_vega_lite)
    ELSE IF spec.schema.kind = "str" /\ Contains(spec.schema.val, SUB_vega)
    THEN Return(S_vega)
    ELSE Return(S_vega_lite)

infer_mode_from_spec(spec) ==
    IF spec.schema.kind # "absent"
    THEN IF spec.schema.kind # "str" THEN ProbeKeys(spec, 1)
         ELSE IF Contains(spec.schema.val, SUB_vegalite) THEN Return(S_vega_lite)
         ELSE IF Contains(spec.schema.val, SUB_vega) THEN Return(S_vega)
         ELSE ProbeKeys(spec, 1)
    ELSE ProbeKeys(spec, 1)

(* Inputs of the inference *)

\* pieces of schema URLs; "/vega" followed by "-lite/" or by "/vega/" makes the
\* substrings the function looks for across a piece boundary
SchemaChunks == {SUB_vega, SUB_vegalite, <<"/", "v", "e", "g", "a">>,
                 <<"-", "l", "i", "t", "e", "/">>, <<"v", "5">>}

RECURSIVE Concat(_)
Concat(ss) == IF ss = <<>> THEN <<>> ELSE Head(ss) \o Concat(Tail(ss))

\* the strings made of at most n pieces
ChunkStrings(chunks, n) == {Concat(ss) : ss \in StringsUpTo(chunks, n)}

Schemas == {[kind |-> "absent", val |-> <<>>], [kind |-> "nonstr", val |-> <<>>]}
           \cup {[kind |-> "str", val |-> s] : s \in ChunkStrings(SchemaChunks, MaxChunks)}

\* the probed keys and a key of vega-lite specs
TopLevelKeys == {VegaOnlyKeys[i] : i \in 1..Len(VegaOnlyKeys)} \cup {"mark"}

SpecInputs == {[schema |-> s, keys |-> ks] :
                  s \in Schemas,
                  ks \in {k \in SUBSET TopLevelKeys : Cardinality(k) <= MaxKeys}}

CallInferMode ==
    /\ call.op = "idle"
    /\ \E spec \in SpecInputs :
          call' = [op |-> "infer_mode_from_spec", spec |-> spec,
                   out |-> infer_mode_from_spec(spec)]
    /\ UNCHANGED <<fs, sc, removal, run, log, mo>>

InferNext == CallInferMode

-----------------------------------------------------------------------------
(* Format from a file name: extract_format *)

EXT_vg_json == <<".", "v", "g", ".", "j", "s", "o", "n">>
EXT_json == <<".", "j", "s", "o", "n">>

\* The target is a path (a str), or a stream: the model keeps of a stream its
\* name attribute, which may be missing.
\* getattr(fp, "name", None), with None modelled as the record without a name
filename_of(fp) ==
    IF fp.kind = "path" THEN [none |-> FALSE, val |-> fp.path]
    ELSE IF fp.has_name THEN [none |-> FALSE, val |-> fp.name]
    ELSE [none |-> TRUE, val |-> <<>>]

\* a plausible slip: ".json" tested before ".vg.json"
extract_format_json_first(fp) ==
    LET filename == filename_of(fp) IN
    IF filename.none THEN Raise("ValueError")
    ELSE IF EndsWith(filename.val, EXT_json) THEN Return(S_vega_lite)
    ELSE IF EndsWith(filename.val, EXT_vg_json) THEN Return(S_vega)
    ELSE LET parts == Split(filename.val, ".") IN Return(parts[Len(parts)])

extract_format(fp) ==
    LET filename == filename_of(fp) IN
    IF filename.none THEN Raise("ValueError")
    ELSE IF EndsWith(filename.val, EXT_vg_json) THEN Return(S_vega)
    ELSE IF EndsWith(filename.val, EXT_json) THEN Return(S_vega_lite)
    ELSE LET parts == Split(filename.val, ".") IN Return(parts[Len(parts)])

(* Inputs of extract_format *)

\* pieces of file names
NameChunks == {<<"c">>, <<".">>, <<".", "v", "g">>, EXT_json, <<"j", "s", "o", "n">>,
               <<".", "p", "n", "g">>}
FileNames == ChunkStrings(NameChunks, MaxNameChunks)

Targets == {[kind |-> "path", path |-> n] : n \in FileNames}
           \cup {[kind |-> "stream", has_name |-> TRUE, name |-> n] : n \in FileNames}
           \cup {[kind |-> "stream", has_name |-> FALSE, name |-> <<>>]}

CallExtractFormat ==
    /\ call.op = "idle"
    /\ \E fp \in Targets :
          call' = [op |-> "extract_format", fp |-> fp, out |-> extract_format(fp)]
    /\ UNCHANGED <<fs, sc, removal, run, log, mo>>

ExtractNext == CallExtractFormat

-----------------------------------------------------------------------------
(* Scoped temporary file: temporary_filename *)

Scopes == 1..NumScopes
Names == 1..NumNames

\* a scope that has not been entered
NoScope == [pc |-> "idle", name |-> 0, how |-> "none", raised |-> "none",
            body_removed |-> FALSE]

\* the ways a with-body ends: it returns, it raises, or an exception is thrown
\* into it from outside (KeyboardInterrupt, GeneratorExit)
ExitPaths == {"return", "error", "cancel"}

os_path_exists(f, n) == f[n] # 0

\* if os.path.exists(filename):
ShouldRemove(f, n) == os_path_exists(f, n)

Open(s) == sc[s].pc \in {"body", "finally", "remove"}

\* tempfile.mkstemp creates, with O_EXCL, a file under a name no existing file
\* has; os.close; the name is yielded to the body
Enter(s) ==
    /\ sc[s].pc = "idle"
    /\ \E n \in Names :
          /\ ~os_path_exists(fs, n)
          /\ fs' = [fs EXCEPT ![n] = s]
          /\ sc' = [sc EXCEPT ![s] = [NoScope EXCEPT !.pc = "body", !.name = n]]
    /\ UNCHANGED <<call, removal, run, log, mo>>

\* the body (or the external tool it runs) removes the scope's file itself
BodyRemove(s) ==
    /\ sc[s].pc = "body"
    /\ fs[sc[s].name] = s
    /\ fs' = [fs EXCEPT ![sc[s].name] = 0]
    /\ sc' = [sc EXCEPT ![s].body_removed = TRUE]
    /\ UNCHANGED <<call, removal, run, log, mo>>

(* The finally block.  Calls run in threads or processes of their own, so the
   test and the removal are two steps that other calls' steps may come between. *)

\* the body ends, by any of the exit paths; control reaches the finally block
Leave(s) ==
    /\ sc[s].pc = "body"
    /\ \E how \in ExitPaths :
          sc' = [sc EXCEPT ![s].pc = "finally", ![s].how = how]
    /\ UNCHANGED <<call, fs, removal, run, log, mo>>

\* if os.path.exists(filename):
CheckExists(s) ==
    /\ sc[s].pc = "finally"
    /\ sc' = [sc EXCEPT ![s].pc = IF ShouldRemove(fs, sc[s].name) THEN "remove" ELSE "done"]
    /\ UNCHANGED <<call, fs, removal, run, log, mo>>

\* os.remove(filename): removes whatever file has the name now, and raises
\* when there is none
Remove(s) ==
    /\ sc[s].pc = "remove"
    /\ IF os_path_exists(fs, sc[s].name)
       THEN /\ fs' = [fs EXCEPT ![sc[s].name] = 0]
            /\ removal' = [by |-> s, owner |-> fs[sc[s].name]]
            /\ sc' = [sc EXCEPT ![s].pc = "done"]
       ELSE /\ sc' = [sc EXCEPT ![s].pc = "done", ![s].raised = "FileNotFoundError"]
            /\ UNCHANGED <<fs, removal>>
    /\ UNCHANGED <<call, run, log, mo>>

TempNext ==
    \E s \in Scopes : Enter(s) \/ BodyRemove(s) \/ Leave(s) \/ CheckExists(s) \/ Remove(s)

-----------------------------------------------------------------------------
(* External command: check_output_with_stderr *)

\* bytes.decode(): strict UTF-8.  A byte below 0x80 is one character; a lead
\* byte 0xC2..0xDF with a continuation byte 0x80..0xBF is one character; any
\* other byte here (a stray continuation byte, a lead byte cut short, 0xFF)
\* raises UnicodeDecodeError.  Text is a sequence of code points.
RECURSIVE decode(_)
decode(b) ==
    IF b = <<>> THEN Return(<<>>)
    ELSE IF b[1] < 128
    THEN LET rest == decode(Tail(b)) IN
         IF rest.raised = "none" THEN Return(<<b[1]>> \o rest.value) ELSE rest
    ELSE IF b[1] \in 194..223 /\ Len(b) >= 2 /\ b[2] \in 128..191
    THEN LET rest == decode(Tail(Tail(b))) IN
         IF rest.raised = "none"
         THEN Return(<<(b[1] - 192) * 64 + (b[2] - 128)>> \o rest.value)
         ELSE rest
    ELSE Raise("UnicodeDecodeError")

\* the bytes a process may write: "A", the two bytes of U+00E9, and 0xFF
ByteValues == {65, 195, 169, 255}
ByteStrings == StringsUpTo(ByteValues, MaxBytes)

Commands == {"vl2vg", "vg2svg"}
ExitCodes == {0, 1, -9}
Stdouts == {<<>>, <<60, 115>>}

NoRun == [pc |-> "idle", cmd |-> "", returncode |-> 0, stdout |-> <<>>,
          stderr |-> <<>>, spawned |-> 0, out |-> Return(<<>>)]

\* subprocess.run(cmd, check=True, stdout=PIPE, stderr=PIPE): the process runs
\* to its end, both pipes are captured, and a non-zero return code raises
\* CalledProcessError
SubprocessRun ==
    /\ run.pc = "idle"
    /\ \E cmd \in Commands, rc \in ExitCodes, so \in Stdouts, se \in ByteStrings :
          /\ run' = [run EXCEPT !.pc = IF rc = 0 THEN "else" ELSE "except",
                                !.cmd = cmd, !.returncode = rc, !.stdout = so,
                                !.stderr = se, !.spawned = run.spawned + 1]
          /\ log' = Append(log, [ev |-> "process_exit", returncode |-> rc])
    /\ UNCHANGED <<call, fs, sc, removal, mo>>

\* except subprocess.CalledProcessError as err: write err.stderr.decode() to
\* sys.stderr when there is any, then raise
ExceptBranch ==
    /\ run.pc = "except"
    /\ IF run.stderr # <<>> /\ decode(run.stderr).raised # "none"
       THEN /\ run' = [run EXCEPT !.pc = "done",
                                  !.out = Raise(decode(run.stderr).raised)]
            /\ log' = Append(log, [ev |-> "raise", what |-> decode(run.stderr).raised])
       ELSE /\ run' = [run EXCEPT !.pc = "done",
                                  !.out = [raised |-> "CalledProcessError",
                                           value |-> <<>>,
                                           cmd |-> run.cmd,
                                           returncode |-> run.returncode,
                                           stderr |-> run.stderr]]
            /\ log' = (IF run.stderr # <<>>
                       THEN Append(log, [ev |-> "stderr_write",
                                         text |-> decode(run.stderr).value])
                       ELSE log)
                      \o <<[ev |-> "raise", what |-> "CalledProcessError"]>>
    /\ UNCHANGED <<call, fs, sc, removal, mo>>

\* else: write ps.stderr.decode() to sys.stderr when there is any, then
\* return ps.stdout
ElseBranch ==
    /\ run.pc = "else"
    /\ IF run.stderr # <<>> /\ decode(run.stderr).raised # "none"
       THEN /\ run' = [run EXCEPT !.pc = "done",
                                  !.out = Raise(decode(run.stderr).raised)]
            /\ log' = Append(log, [ev |-> "raise", what |-> decode(run.stderr).raised])
       ELSE /\ run' = [run EXCEPT !.pc = "done", !.out = Return(run.stdout)]
            /\ log' = (IF run.stderr # <<>>
                       THEN Append(log, [ev |-> "stderr_write",
                                         text |-> decode(run.stderr).value])
                       ELSE log)
                      \o <<[ev |-> "return"]>>
    /\ UNCHANGED <<call, fs, sc, removal, mo>>

RunNext == SubprocessRun \/ ExceptBranch \/ ElseBranch

-----------------------------------------------------------------------------
(* Output target: maybe_open *)

\* Python mode strings
Modes == {<<"w">>, <<"w", "b">>, <<"w", "t">>, <<"a">>, <<"a", "b">>,
          <<"w", "+", "b">>, <<"x">>, <<"x", "b">>}

\* Classes of the streams a caller may pass, and whether a stream of the class
\* takes bytes (binary) or str (text).  io.FileIO is what open(p, "wb",
\* buffering=0) returns; tempfile._TemporaryFileWrapper is what
\* tempfile.NamedTemporaryFile returns, in either mode.
StreamClasses == {"TextIOWrapper", "StringIO", "BufferedWriter", "BytesIO",
                  "FileIO", "_TemporaryFileWrapper"}

\* isinstance(fp, io.TextIOBase)
IsTextIOBase(fp) == fp.cls \in {"TextIOWrapper", "StringIO"}

\* isinstance(fp, io.BufferedIOBase)
IsBufferedIOBase(fp) == fp.cls \in {"BufferedWriter", "BytesIO"}

Streams == {[kind |-> "stream", cls |-> c, binary |-> b] :
               c \in StreamClasses, b \in BOOLEAN} \
           ({[kind |-> "stream", cls |-> c, binary |-> TRUE] :
                c \in {"TextIOWrapper", "StringIO"}} \cup
            {[kind |-> "stream", cls |-> c, binary |-> FALSE] :
                c \in {"BufferedWriter", "BytesIO", "FileIO"}})

Paths == {[kind |-> "path", path |-> p] : p \in {"chart.png", "chart.svg"}}

NoOpen == [pc |-> "idle", fp |-> [kind |-> "none"], mode |-> <<>>,
           raised |-> "none", yielded |-> [kind |-> "none"],
           handle |-> "none", stream_closed |-> FALSE, how |-> "none"]

\* what entering the context does: the value yielded to the body or the
\* exception raised, and the file it opened itself if any
maybe_open(fp, mode) ==
    IF fp.kind = "path"
    THEN [raised |-> "none",
          yielded |-> [kind |-> "file", path |-> fp.path, mode |-> mode],
          handle |-> "open"]
    ELSE IF IsTextIOBase(fp) /\ Contains(mode, <<"b">>)
    THEN [raised |-> "ValueError", yielded |-> [kind |-> "none"], handle |-> "none"]
    ELSE IF IsBufferedIOBase(fp) /\ ~Contains(mode, <<"b">>)
    THEN [raised |-> "ValueError", yielded |-> [kind |-> "none"], handle |-> "none"]
    ELSE [raised |-> "none", yielded |-> fp, handle |-> "none"]

MaybeOpenEnter ==
    /\ mo.pc = "idle"
    /\ \E fp \in Paths \cup Streams, mode \in Modes :
          LET r == maybe_open(fp, mode) IN
          mo' = [mo EXCEPT !.pc = IF r.raised = "none" THEN "body" ELSE "done",
                           !.fp = fp, !.mode = mode, !.raised = r.raised,
                           !.yielded = r.yielded, !.handle = r.handle]
    /\ UNCHANGED <<call, fs, sc, removal, run, log>>

\* the body ends, by returning or by raising: `with open(fp, mode) as f` closes
\* the file it opened; a stream passed in is left as it is
MaybeOpenExit ==
    /\ mo.pc = "body"
    /\ \E how \in {"return", "error"} :
          mo' = [mo EXCEPT !.pc = "done", !.how = how,
                           !.handle = IF mo.handle = "open" THEN "closed" ELSE mo.handle]
    /\ UNCHANGED <<call, fs, sc, removal, run, log>>

OpenNext == MaybeOpenEnter \/ MaybeOpenExit

-----------------------------------------------------------------------------
(* The savers: BasicSaver (direct) and NodeSaver (pipeline) *)

\* A saver built without a mode infers it from the spec.
\* BasicSaver.mimebundle(fmt): the spec itself under the MIME type of its own
\* dialect; any other format is refused.  No process is spawned.
BasicSaver_mimebundle(spec, fmt, vegalite_version, vega_version) ==
    LET mode == infer_mode_from_spec(spec).value IN
    IF fmt = mode
    THEN [raised |-> "none",
          bundle |-> {[mimetype |-> fmt_to_mimetype(fmt, vegalite_version, vega_version).value,
                       payload |-> spec]},
          spawned |-> 0]
    ELSE [raised |-> "ValueError", bundle |-> {}, spawned |-> 0]

\* the formats the pipeline saver accepts
NodeSaver_valid_formats == Formats

\* the external stages between a dialect and a format
Stages(mode, fmt) ==
    IF fmt = mode \/ fmt = S_html THEN 0
    ELSE IF fmt = S_vega THEN 1
    ELSE IF fmt = S_svg THEN (IF mode = S_vega_lite THEN 2 ELSE 1)
    ELSE (IF mode = S_vega_lite THEN 3 ELSE 2)

\* a plausible slip: the dialect-raising guard left out, the spec passed through
NodeSaver_mimebundle_no_guard(spec, mode, fmt, failing_stage) ==
    IF fmt \notin NodeSaver_valid_formats
    THEN [raised |-> "ValueError", bundle |-> {}, spawned |-> 0]
    ELSE IF failing_stage \in 1..Stages(mode, fmt)
    THEN [raised |-> "CalledProcessError", bundle |-> {}, spawned |-> failing_stage]
    ELSE [raised |-> "none",
          bundle |-> {[fmt |-> fmt, payload |-> IF fmt = mode THEN "spec" ELSE "rendered"]},
          spawned |-> Stages(mode, fmt)]

\* NodeSaver.mimebundle(fmt) of a saver built with the given mode.
\* failing_stage is the first external stage that exits non-zero, 0 if none does.
NodeSaver_mimebundle(spec, mode, fmt, failing_stage) ==
    IF fmt \notin NodeSaver_valid_formats
    THEN [raised |-> "ValueError", bundle |-> {}, spawned |-> 0]
    ELSE IF mode = S_vega /\ fmt = S_vega_lite
    THEN [raised |-> "ValueError", bundle |-> {}, spawned |-> 0]
    ELSE IF failing_stage \in 1..Stages(mode, fmt)
    THEN [raised |-> "CalledProcessError", bundle |-> {}, spawned |-> failing_stage]
    ELSE [raised |-> "none",
          bundle |-> {[fmt |-> fmt, payload |-> IF fmt = mode THEN "spec" ELSE "rendered"]},
          spawned |-> Stages(mode, fmt)]

\* alt.VEGALITE_VERSION and alt.VEGA_VERSION of the installed altair
InstalledVersions == {v \in Versions : Len(Split(v, ".")[1]) = 1}

\* the formats callers ask for: the six, and one outside them
SaverFormats == Formats \cup {<<"j", "p", "g">>}

CallBasicSaver ==
    /\ call.op = "idle"
    /\ \E spec \in SpecInputs, fmt \in SaverFormats, v \in InstalledVersions :
          call' = [op |-> "BasicSaver", spec |-> spec, fmt |-> fmt,
                   mode |-> infer_mode_from_spec(spec).value,
                   out |-> BasicSaver_mimebundle(spec, fmt, v, v)]
    /\ UNCHANGED <<fs, sc, removal, run, log, mo>>

CallNodeSaver ==
    /\ call.op = "idle"
    /\ \E spec \in SpecInputs, mode \in {S_vega, S_vega_lite}, fmt \in SaverFormats,
          failing_stage \in 0..3 :
          call' = [op |-> "NodeSaver", spec |-> spec, fmt |-> fmt, mode |-> mode,
                   out |-> NodeSaver_mimebundle(spec, mode, fmt, failing_stage)]
    /\ UNCHANGED <<fs, sc, removal, run, log, mo>>

SaverNext == CallBasicSaver \/ CallNodeSaver

-----------------------------------------------------------------------------
(* Specifications *)

Init ==
    /\ call = Idle
    /\ fs = [n \in Names |-> 0]
    /\ sc = [s \in Scopes |-> NoScope]
    /\ removal = [by |-> 0, owner |-> 0]
    /\ run = NoRun
    /\ log = <<>>
    /\ mo = NoOpen

\* the format registry
SpecRegistry == Init /\ [][RegistryNext]_vars
\* dialect inference
SpecInfer == Init /\ [][InferNext]_vars
\* format from a file name
SpecExtract == Init /\ [][ExtractNext]_vars
\* the savers
SpecSaver == Init /\ [][SaverNext]_vars
\* temporary files of concurrent calls
SpecTemp == Init /\ [][TempNext]_vars
\* an external command
SpecRun == Init /\ [][RunNext]_vars
\* an output target
SpecOpen == Init /\ [][OpenNext]_vars

Next == RegistryNext \/ InferNext \/ ExtractNext \/ SaverNext \/ TempNext
           \/ RunNext \/ OpenNext
Spec == Init /\ [][Next]_vars

-----------------------------------------------------------------------------
(* Properties *)

\* C1: for each of the six formats and every pair of x.y.z version strings,
\* mimetype_to_fmt applied to the result of fmt_to_mimetype returns the format
\* itself; the vega-lite MIME type is never read as vega, nor the vega one as
\* vega-lite.
C1_RoundTrip ==
    call.op = "round_trip" => call.fmt \in Formats /\ call.out = Return(call.fmt)

\* a vega-lite MIME type with a two-digit major version was mapped back
C1_Witness ==
    /\ call.op = "round_trip"
    /\ call.fmt = S_vega_lite
    /\ Len(call.mimetype) = Len(T_vegalite) + 2 + Len(T_json)
    /\ call.out.value = S_vega_lite

\* the dialect the priority order of the claim gives a spec
C2_Expected(spec) ==
    LET isStr == spec.schema.kind = "str" IN
    IF isStr /\ Contains(spec.schema.val, SUB_vegalite) THEN S_vega_lite
    ELSE IF isStr /\ Contains(spec.schema.val, SUB_vega) THEN S_vega
    ELSE IF spec.keys \cap {"axes", "legends", "marks", "projections", "scales", "signals"} # {}
    THEN S_vega
    ELSE S_vega_lite

\* C2: infer_mode_from_spec returns for every spec, never raises, and decides
\* in this order: a string $schema containing /vega-lite/ gives vega-lite; else
\* a string $schema containing /vega/ gives vega; else any of the six vega-only
\* keys gives vega; else vega-lite.
C2_InferPriority ==
    call.op = "infer_mode_from_spec" => call.out = Return(C2_Expected(call.spec))

\* a spec whose schema names vega-lite and that has a vega-only key was
\* inferred as vega-lite
C2_Witness ==
    /\ call.op = "infer_mode_from_spec"
    /\ call.spec.schema.kind = "str"
    /\ Contains(call.spec.schema.val, SUB_vegalite)
    /\ "marks" \in call.spec.keys
    /\ call.out.value = S_vega_lite

\* a dialect MIME type with its version: the template around digits and dots
IsVersionedDialectMimetype(m) ==
    \E T \in {T_vegalite, T_vega} :
        /\ Len(m) > Len(T) + Len(T_json)
        /\ StartsWith(m, T)
        /\ EndsWith(m, T_json)
        /\ \A i \in (Len(T) + 1)..(Len(m) - Len(T_json)) :
              m[i] \in {"0", "1", "2", "3", "4", "5", "6", "7", "8", "9", "."}

\* C3: fmt_to_mimetype raises for every format outside the six, and
\* mimetype_to_fmt raises for every MIME string that is neither one of the four
\* fixed MIME types nor a versioned vega-lite or vega MIME type.
C3_NeverDefaults ==
    /\ call.op = "fmt_to_mimetype" /\ call.fmt \notin Formats
          => call.out.raised # "none"
    /\ call.op = "mimetype_to_fmt" /\ call.mimetype \notin FixedMimetypes
          /\ ~IsVersionedDialectMimetype(call.mimetype)
          => call.out.raised # "none"

\* C4: once a temporary_filename scope has been left, by return, error or
\* cancellation, the file it created does not exist, whether or not the body
\* removed it first, and leaving raised nothing.
C4_RemovedOnEveryExit ==
    \A s \in Scopes :
        sc[s].pc = "done" =>
            /\ \A n \in Names : fs[n] # s
            /\ sc[s].raised = "none"

\* C5: whatever the exit code, the bytes the process wrote to stderr reach
\* sys.stderr before the call ends; exit code 0 ends in the stdout bytes
\* returned, any other in CalledProcessError with the command, the return code
\* and the stderr bytes; the command ran once.
C5_DiagnosticsRelayed ==
    run.pc = "done" =>
        /\ run.spawned = 1
        /\ run.stderr # <<>> =>
              \E i \in 1..(Len(log) - 1) : log[i].ev = "stderr_write"
        /\ run.returncode = 0 => run.out = Return(run.stdout)
        /\ run.returncode # 0 =>
              /\ run.out.raised = "CalledProcessError"
              /\ run.out.cmd = run.cmd
              /\ run.out.returncode = run.returncode
              /\ run.out.stderr = run.stderr

\* C6: with an open stream, maybe_open raises before yielding when the stream
\* is text-mode and the mode binary, or the stream binary-mode and the mode
\* text; otherwise it yields the stream itself and never closes it; with a path
\* it opens the path in the mode asked for and closes it when the scope is left.
C6_FailFast ==
    /\ mo.pc # "idle" /\ mo.fp.kind = "stream" =>
          IF mo.fp.binary # Contains(mo.mode, <<"b">>)
          THEN mo.raised = "ValueError" /\ mo.yielded.kind = "none"
          ELSE mo.raised = "none" /\ mo.yielded = mo.fp /\ ~mo.stream_closed
    /\ mo.pc # "idle" /\ mo.fp.kind = "path" =>
          /\ mo.yielded = [kind |-> "file", path |-> mo.fp.path, mode |-> mo.mode]
          /\ mo.handle = IF mo.pc = "done" THEN "closed" ELSE "open"

\* the substring after the final "." of a name; the whole name when it has none
AfterFinalDot(s) ==
    LET dots == {i \in 1..Len(s) : s[i] = "."} IN
    IF dots = {} THEN s
    ELSE SubSeq(s, (CHOOSE i \in dots : \A j \in dots : j <= i) + 1, Len(s))

\* C7: extract_format gives vega for a name ending in .vg.json, vega-lite for
\* any other name ending in .json, and otherwise what follows the final "." of
\* the name; a stream without a name raises and gives no format.
C7_ExtractFormat ==
    call.op = "extract_format" =>
        IF call.fp.kind = "stream" /\ ~call.fp.has_name
        THEN call.out.raised = "ValueError"
        ELSE LET name == IF call.fp.kind = "path" THEN call.fp.path ELSE call.fp.name IN
             call.out = Return(IF EndsWith(name, EXT_vg_json) THEN S_vega
                               ELSE IF EndsWith(name, EXT_json) THEN S_vega_lite
                               ELSE AfterFinalDot(name))

\* the name c.vg.json of a stream gave vega
C7_Witness ==
    /\ call.op = "extract_format"
    /\ call.fp.kind = "stream"
    /\ call.fp.has_name
    /\ call.fp.name = <<"c">> \o EXT_vg_json
    /\ call.out.value = S_vega

\* C8: BasicSaver supports exactly the format equal to its spec's dialect: for
\* a vega-lite spec, mimebundle("vega-lite") returns a bundle of one entry whose
\* payload is the spec; any other format raises ValueError and returns no
\* bundle (so does "vega" on the empty spec); no process is ever spawned.
C8_BasicSaver ==
    call.op = "BasicSaver" =>
        /\ call.out.spawned = 0
        /\ IF call.fmt = C2_Expected(call.spec)
           THEN /\ call.out.raised = "none"
                /\ Cardinality(call.out.bundle) = 1
                /\ \A e \in call.out.bundle : e.payload = call.spec
           ELSE /\ call.out.raised = "ValueError"
                /\ call.out.bundle = {}

\* a vega-lite spec was saved as vega-lite
C8_Witness ==
    /\ call.op = "BasicSaver"
    /\ call.spec.schema.kind = "str"
    /\ C2_Expected(call.spec) = S_vega_lite
    /\ call.fmt = S_vega_lite
    /\ Cardinality(call.out.bundle) = 1

\* C9: a NodeSaver of mode vega asked for vega-lite always raises ValueError,
\* whatever the spec, and returns no bundle; no other pair of a mode and a
\* valid format is refused with that error.
C9_DialectRaisingGuard ==
    call.op = "NodeSaver" =>
        IF call.mode = S_vega /\ call.fmt = S_vega_lite
        THEN call.out.raised = "ValueError" /\ call.out.bundle = {}
        ELSE call.fmt \in NodeSaver_valid_formats => call.out.raised # "ValueError"

\* a spec with a vega-lite schema, saved with mode vega, was refused as vega-lite
C9_Witness ==
    /\ call.op = "NodeSaver"
    /\ call.mode = S_vega
    /\ call.fmt = S_vega_lite
    /\ call.spec.schema.kind = "str"
    /\ Contains(call.spec.schema.val, SUB_vegalite)
    /\ call.out.raised = "ValueError"

\* C10: no two scopes open at the same time hold the same file name, and a
\* scope's cleanup removes only the file that scope created.
C10_NoCollision ==
    /\ \A s, t \in Scopes : s # t /\ Open(s) /\ Open(t) => sc[s].name # sc[t].name
    /\ removal.by = removal.owner

=============================================================================
